---- MODULE Spec2Model ----
(***************************************************************************)
(* State-machine model of scripts/export-parakeet-onnx.py: the batch       *)
(* runner main(), export_model(), and the two architecture variants        *)
(* export_tdt_model() / export_ctc_model(), with the file system of the    *)
(* output base directory and the opaque NeMo / torch / onnx capabilities   *)
(* as nondeterministic inputs.                                             *)
(***************************************************************************)
EXTENDS Integers, Sequences, FiniteSets, TLC

VARIABLES
    args,          \* parsed command line: [model, cpu_only]
    cuda,          \* torch.cuda.is_available()
    pc,            \* position of the single thread of control
    idx,           \* position of the for loop in models_to_export (1-based)
    device,        \* the device argument of the running export_model call
    in_try,        \* TRUE while the running call is the one at line 292
    model,         \* the loaded NeMo model object (its tokenizer)
    dir,           \* the output directories, one per MODELS entry
    attempts,      \* history: the export_model calls made so far
    raised,        \* the exception in flight or the one that ended the run
    exitcode,      \* process exit status, Running until the process ends
    cache_clears,  \* history: Len(attempts) at each torch.cuda.empty_cache()
    done_dir       \* history: each output directory as its job returned it

vars == <<args, cuda, pc, idx, device, in_try, model, dir, attempts, raised,
          exitcode, cache_clears, done_dir>>

-----------------------------------------------------------------------------
(* The static model table, lines 28-39.                                    *)

ModelKeys == {"ja", "vi"}

MODELS ==
    [k \in ModelKeys |->
        IF k = "ja"
        THEN [hf_id |-> "nvidia/parakeet-tdt_ctc-0.6b-ja", arch |-> "tdt",
              output_dir |-> "parakeet-tdt-0.6b-ja"]
        ELSE [hf_id |-> "nvidia/parakeet-ctc-0.6b-Vietnamese", arch |-> "ctc",
              output_dir |-> "parakeet-ctc-0.6b-vi"]]

\* list(MODELS.keys()): insertion order of the table
ModelKeyList == <<"ja", "vi">>

\* line 283
models_to_export(a) ==
    IF a.model = "all" THEN ModelKeyList ELSE <<a.model>>

-----------------------------------------------------------------------------
(* Exceptions.  An exception is its class and its message, the message a   *)
(* sequence of words.                                                      *)

Messages ==
    { <<"CUDA", "out", "of", "memory">>,
      <<"CUDA", "error:", "Out", "Of", "Memory">>,
      <<"out", "of", "range", "memory">>,
      <<"shape", "mismatch">> }

\* torch.cuda.OutOfMemoryError comes with torch's own message, or with none
\* of the marker words
OomMessages == { <<"CUDA", "out", "of", "memory">>, <<"allocation", "failed">> }

\* another exception class (MemoryError, OSError, ...) may carry the marker too
OtherMessages == { <<"CUDA", "out", "of", "memory">>, <<"shape", "mismatch">> }

NoExc == [cls |-> "None", msg |-> <<>>]

\* what the opaque capabilities (from_pretrained, cuda(), export) may raise
OpaqueErrors ==
    [cls : {"OutOfMemoryError"}, msg : OomMessages]
        \cup [cls : {"RuntimeError"}, msg : Messages]
        \cup [cls : {"Exception"}, msg : OtherMessages]

\* sys.exit(1), lines 65, 90, 141
SysExitCode == 1

SystemExit == [cls |-> "SystemExit", msg |-> <<"1">>]

\* AttributeError on a tokenizer that lacks the attribute read
AttributeError == [cls |-> "Exception", msg |-> <<"no", "attribute">>]

\* str.lower() on one word
LowerWord(w) ==
    CASE w = "Out" -> "out"
      [] w = "Of" -> "of"
      [] w = "Memory" -> "memory"
      [] w = "CUDA" -> "cuda"
      [] OTHER -> w

lower(m) == [i \in 1..Len(m) |-> LowerWord(m[i])]

\* "out of memory" in s
ContainsOutOfMemory(s) ==
    \E i \in 1..Len(s) :
        /\ i + 2 <= Len(s)
        /\ s[i] = "out" /\ s[i + 1] = "of" /\ s[i + 2] = "memory"

\* faulty variant: a bare "except Exception" clause
ExceptMatchesAnyException(e) == e.cls # "SystemExit"

\* the except clause of line 294: torch.cuda.OutOfMemoryError is a RuntimeError
ExceptMatches(e) == e.cls \in {"OutOfMemoryError", "RuntimeError"}

\* faulty variant: the message is searched without lower()
IsOutOfMemoryCaseSensitive(e) ==
    ContainsOutOfMemory(e.msg) \/ e.cls = "OutOfMemoryError"

\* the condition of lines 295-297
IsOutOfMemory(e) ==
    ContainsOutOfMemory(lower(e.msg)) \/ e.cls = "OutOfMemoryError"

\* faulty variant: the missing-artifact exits report success
ExitStatusOfExitZero(e) == IF e.cls = "SystemExit" THEN 0 ELSE 1

\* status of the interpreter when e leaves main() uncaught (line 319)
ExitStatus(e) == IF e.cls = "SystemExit" THEN SysExitCode ELSE 1

-----------------------------------------------------------------------------
(* ONNX graphs.  A graph is the sequence of its tensors; a tensor sits in  *)
(* graph.initializer or in a node attribute, holds its payload in raw_data *)
(* or in a typed field, and after packing may be a reference into a blob.  *)

MaxTensors == 2

\* where a tensor sits and how it holds its payload; an attribute tensor is
\* never converted, whatever its storage
TensorKinds ==
    { [site |-> "initializer", storage |-> "raw_data"],
      [site |-> "initializer", storage |-> "typed_data"],
      [site |-> "attribute", storage |-> "raw_data"] }

\* the payload of the i-th tensor: i bytes, distinct per tensor
Payload(i) == [j \in 1..i |-> 10 * i + j]

Tensor(site, storage, data) ==
    [site |-> site, storage |-> storage, data |-> data,
     external |-> FALSE, location |-> "", offset |-> 0, length |-> 0]

\* the graphs the opaque exporter may produce: the exported networks carry
\* their weights as raw_data initializers (docstrings, lines 47 and 119)
ExportedGraphs ==
    { g \in UNION { [1..n -> TensorKinds] : n \in 1..MaxTensors } :
        \E i \in DOMAIN g : g[i].site = "initializer" /\ g[i].storage = "raw_data" }

GraphOf(shape) ==
    [i \in DOMAIN shape |-> Tensor(shape[i].site, shape[i].storage, Payload(i))]

NoGraph == <<>>

\* faulty variant: the library's default threshold of 1024 bytes
DefaultSizeThreshold == 1000 + 24

\* size_threshold=0, lines 73, 82, 151, 160
size_threshold == 0

\* convert_attribute=False, lines 74, 152
convert_attribute == FALSE

\* onnx.external_data_helper.convert_model_to_external_data for one tensor:
\* a tensor is marked when it is an initializer (or convert_attribute), has
\* raw_data, and sys.getsizeof(raw_data) >= size_threshold
MarkedExternal(t) ==
    /\ (t.site = "initializer" \/ convert_attribute)
    /\ t.storage = "raw_data"
    /\ Len(t.data) + 33 >= size_threshold

\* bytes written to the blob by the tensors 1..n of g, in graph order
RECURSIVE BlobUpTo(_, _)
BlobUpTo(g, n) ==
    IF n = 0 THEN <<>>
    ELSE IF MarkedExternal(g[n]) THEN BlobUpTo(g, n - 1) \o g[n].data
    ELSE BlobUpTo(g, n - 1)

\* faulty variant: every reference starts at the head of the blob
PackedGraphOffsetZero(g, data_filename) ==
    [i \in DOMAIN g |->
        IF MarkedExternal(g[i])
        THEN [g[i] EXCEPT !.data = <<>>, !.external = TRUE,
                          !.location = data_filename,
                          !.length = Len(g[i].data)]
        ELSE g[i]]

\* onnx.save_model(save_as_external_data=True, all_tensors_to_one_file=True):
\* each marked tensor is appended to the one blob, its raw_data cleared and
\* replaced by (location, offset, length)
PackedGraph(g, data_filename) ==
    [i \in DOMAIN g |->
        IF MarkedExternal(g[i])
        THEN [g[i] EXCEPT !.data = <<>>, !.external = TRUE,
                          !.location = data_filename,
                          !.offset = Len(BlobUpTo(g, i - 1)),
                          !.length = Len(g[i].data)]
        ELSE g[i]]

WritesBlob(g) == \E i \in DOMAIN g : MarkedExternal(g[i])

-----------------------------------------------------------------------------
(* The loaded model: only its tokenizer matters to the script.  Each       *)
(* attribute the script probes with hasattr is present or not.             *)

NoModel ==
    [loaded |-> FALSE, has_vocab |-> FALSE, vocab |-> <<>>,
     has_get_vocab |-> FALSE, get_vocab |-> {},
     has_vocab_size |-> FALSE, vocab_size |-> 0, ids_to_tokens |-> <<>>]

\* tokenizer.vocab is a sequence
TokVocab(v) == [NoModel EXCEPT !.loaded = TRUE, !.has_vocab = TRUE, !.vocab = v]

\* tokenizer.tokenizer.get_vocab() is a token -> id mapping
TokInner(m) ==
    [NoModel EXCEPT !.loaded = TRUE, !.has_get_vocab = TRUE, !.get_vocab = m]

\* tokenizer.vocab_size and tokenizer.ids_to_tokens([i]); t[i + 1] is the list
\* returned for id i
TokIds(t) ==
    [NoModel EXCEPT !.loaded = TRUE, !.has_vocab_size = TRUE,
                    !.vocab_size = Len(t), !.ids_to_tokens = t]

TokNone == [NoModel EXCEPT !.loaded = TRUE]

\* the tokenizers from_pretrained may return
Tokenizers ==
    { TokVocab(<<"a", "b">>),
      TokInner({<<"a", 0>>, <<"b", 1>>}),
      TokIds(<<(<<"a">>), <<>>, (<<"c">>)>>),
      TokNone }

-----------------------------------------------------------------------------
(* The file system under the output base directory: one directory per      *)
(* MODELS entry.  Every entry carries the number of the export_model call  *)
(* that wrote it (0: it was there before the run).                         *)

Entry(name, by) == [name |-> name, by |-> by]

Names(d) == { f.name : f \in d.files }

NoDir ==
    [exists |-> FALSE, files |-> {}, scratch |-> {}, raw |-> NoGraph,
     graph |-> NoGraph, loaded_from |-> "", blob |-> <<>>,
     vocab_txt |-> <<>>, tokenizer_json |-> {}, config |-> ""]

EmptyDir == [NoDir EXCEPT !.exists = TRUE]

\* what an earlier, interrupted or finished, run may have left behind
StaleDir ==
    [EmptyDir EXCEPT
        !.files = {Entry("stale.bin", 0), Entry("config.json", 0),
                   Entry("vocab.txt", 0), Entry("temp", 0)},
        !.scratch = {"model.onnx"},
        !.config = "stale"]

\* open(name, "w") / save / move: the entry is created or replaced
WithFile(d, name, by) ==
    [d EXCEPT !.files = {f \in d.files : f.name # name} \cup {Entry(name, by)}]

\* faulty variant: the scratch directory is left in place
WithoutTempKept(d) == d

\* shutil.rmtree(temp_dir)
WithoutTemp(d) ==
    [d EXCEPT !.files = {f \in d.files : f.name # "temp"},
              !.scratch = {}, !.raw = NoGraph]

\* the file names the opaque exporter may write into the scratch directory
RawOutputs ==
    { {"encoder-model.onnx", "decoder_joint-model.onnx"},
      {"encoder-model.onnx", "decoder_joint-model.onnx", "extra.bin"},
      {"decoder_joint-model.onnx"},
      {"encoder-model.onnx"},
      {"model.onnx"},
      {"model.onnx", "extra.bin"},
      {"model.onnx", "encoder-model.onnx"},
      {} }

\* the architecture's file set (docstrings, lines 45-50 and 117-121)
FileSet(arch) ==
    IF arch = "tdt"
    THEN {"encoder-model.onnx", "encoder-model.onnx.data",
          "decoder_joint-model.onnx", "vocab.txt", "config.json"}
    ELSE {"model.onnx", "model.onnx_data", "tokenizer.json", "config.json"}

-----------------------------------------------------------------------------
(* History of export_model calls.                                          *)

\* ResourceExhaustion as the specification defines it: a CUDA out-of-memory error,
\* or a runtime error whose message contains "out of memory" in any case
ResourceExhaustion(e) ==
    \/ e.cls = "OutOfMemoryError"
    \/ /\ e.cls = "RuntimeError"
       /\ \E i \in 1..Len(e.msg) - 2 :
            /\ e.msg[i] \in {"out", "Out", "OUT"}
            /\ e.msg[i + 1] \in {"of", "Of", "OF"}
            /\ e.msg[i + 2] \in {"memory", "Memory", "MEMORY"}

\* found: the entries of the output directory as the call found it, kept
\* while the job runs
Attempt(key, dev, found) ==
    [key |-> key, device |-> dev, outcome |-> "running", exc |-> NoExc,
     resource_exhaustion |-> FALSE, found |-> found]

CurKey == models_to_export(args)[idx]

CurArch == MODELS[CurKey].arch

Cur == Len(attempts)

-----------------------------------------------------------------------------
(* main(), lines 253-315.                                                  *)

Init ==
    /\ args \in [model : {"ja", "vi", "all"}, cpu_only : BOOLEAN]
    /\ cuda \in BOOLEAN
    /\ pc = "banner"
    /\ idx = 1
    /\ device = "cpu"
    /\ in_try = FALSE
    /\ model = NoModel
    /\ dir \in [ModelKeys -> {NoDir, StaleDir}]
    /\ attempts = <<>>
    /\ raised = NoExc
    /\ exitcode = <<>>
    /\ cache_clears = <<>>
    /\ done_dir = [k \in ModelKeys |-> NoDir]

\* faulty variant: the loop goes on with the next model after a fatal failure
AfterUncaughtNextModel(i) == [pc |-> "main_loop", idx |-> i + 1]

\* where an exception that no handler of main() takes leaves the run
AfterUncaught(i) == [pc |-> "crashed", idx |-> i]

\* faulty variant: the call of line 304 sits inside the try block too
PropagateToHandler(intry, i) == [pc |-> "except", idx |-> i]

\* where an exception raised inside export_model goes: to the except clause of
\* line 294 when the call is the one inside try, out of main() otherwise
Propagate(intry, i) ==
    IF intry THEN [pc |-> "except", idx |-> i] ELSE AfterUncaught(i)

\* an exception e leaves main(): the interpreter ends with its status
Uncaught(e) ==
    /\ pc' = AfterUncaught(idx).pc
    /\ idx' = AfterUncaught(idx).idx
    /\ raised' = e
    /\ exitcode' = <<ExitStatus(e)>>

\* the running export_model call raises e
Raise(e) ==
    /\ attempts' = [attempts EXCEPT ![Cur].outcome = "failed", ![Cur].exc = e,
                        ![Cur].resource_exhaustion = ResourceExhaustion(e)]
    /\ raised' = e
    /\ pc' = Propagate(in_try, idx).pc
    /\ idx' = Propagate(in_try, idx).idx
    /\ exitcode' = IF in_try THEN exitcode ELSE <<ExitStatus(e)>>

\* lines 276-281: the report of the device; the torch property reads are an
\* opaque capability and may raise before any job starts
main_banner ==
    /\ pc = "banner"
    /\ \/ /\ pc' = "main_loop"
          /\ UNCHANGED <<idx, raised, exitcode>>
       \/ /\ cuda
          /\ Uncaught(AttributeError)
    /\ UNCHANGED <<args, cuda, device, in_try, model, dir, attempts, cache_clears, done_dir>>

\* faulty variant: after one fallback the later models start on the host
FirstDeviceSticky(cpu_only, cuda_available) ==
    IF ~cpu_only /\ cuda_available /\ cache_clears = <<>> THEN "cuda" ELSE "cpu"

\* faulty variant: the --cpu-only flag is not consulted
FirstDeviceIgnoringFlag(cpu_only, cuda_available) ==
    IF cuda_available THEN "cuda" ELSE "cpu"

\* line 288
FirstDevice(cpu_only, cuda_available) ==
    IF ~cpu_only /\ cuda_available THEN "cuda" ELSE "cpu"

\* lines 285-288: the next model of the loop
main_next ==
    /\ pc = "main_loop"
    /\ idx <= Len(models_to_export(args))
    /\ device' = FirstDevice(args.cpu_only, cuda)
    /\ pc' = IF FirstDevice(args.cpu_only, cuda) = "cuda" THEN "try" ELSE "call"
    /\ UNCHANGED <<args, cuda, idx, in_try, model, dir, attempts, raised,
                   exitcode, cache_clears, done_dir>>

\* lines 290-292: export_model(model_key, args.output, device="cuda") in try
main_try ==
    /\ pc = "try"
    /\ in_try' = TRUE
    /\ attempts' = Append(attempts, Attempt(CurKey, "cuda", Names(dir[CurKey])))
    /\ pc' = "reset"
    /\ UNCHANGED <<args, cuda, idx, device, model, dir, raised, exitcode,
                   cache_clears, done_dir>>

\* faulty variant: the cache is emptied before the exception is classified
main_except_clears_first ==
    /\ pc = "except"
    /\ cache_clears' = Append(cache_clears, Cur)
    /\ IF ExceptMatches(raised) /\ IsOutOfMemory(raised)
       THEN /\ device' = "cpu"
            /\ pc' = "call"
            /\ raised' = NoExc
            /\ attempts' = [attempts EXCEPT ![Cur].exc = NoExc]
            /\ UNCHANGED <<idx, exitcode>>
       ELSE /\ Uncaught(raised)
            /\ UNCHANGED <<device, attempts>>
    /\ in_try' = FALSE
    /\ model' = NoModel
    /\ UNCHANGED <<args, cuda, dir, done_dir>>

\* lines 294-302: the except clause
main_except ==
    /\ pc = "except"
    /\ IF ExceptMatches(raised) /\ IsOutOfMemory(raised)
       THEN /\ cache_clears' = Append(cache_clears, Cur)
            /\ device' = "cpu"
            /\ pc' = "call"
            /\ raised' = NoExc
            /\ attempts' = [attempts EXCEPT ![Cur].exc = NoExc]
            /\ UNCHANGED <<idx, exitcode>>
       ELSE /\ Uncaught(raised)
            /\ UNCHANGED <<cache_clears, device, attempts>>
    /\ in_try' = FALSE
    /\ model' = NoModel
    /\ UNCHANGED <<args, cuda, dir, done_dir>>

\* line 304: export_model(model_key, args.output, device=device)
main_call ==
    /\ pc = "call"
    /\ attempts' = Append(attempts, Attempt(CurKey, device, Names(dir[CurKey])))
    /\ pc' = "reset"
    /\ UNCHANGED <<args, cuda, idx, device, in_try, model, dir, raised,
                   exitcode, cache_clears, done_dir>>

\* lines 306-315: the loop is over, main() returns
main_finish ==
    /\ pc = "main_loop"
    /\ idx > Len(models_to_export(args))
    /\ pc' = "done"
    /\ exitcode' = <<0>>
    /\ UNCHANGED <<args, cuda, idx, device, in_try, model, dir, attempts,
                   raised, cache_clears, done_dir>>

-----------------------------------------------------------------------------
(* export_model(), lines 205-250.                                          *)

\* faulty variant: mkdir(exist_ok=True) without the rmtree
RecreatedDirKeeping(d) == [d EXCEPT !.exists = TRUE]

\* lines 212-214: rmtree when the directory exists, then mkdir
RecreatedDir(d) == EmptyDir

export_model_reset ==
    /\ pc = "reset"
    /\ dir' = [dir EXCEPT ![CurKey] = RecreatedDir(dir[CurKey])]
    /\ pc' = "load"
    /\ UNCHANGED <<args, cuda, idx, device, in_try, model, attempts, raised,
                   exitcode, cache_clears, done_dir>>

\* lines 219-238: from_pretrained, cuda()/cpu(), the attention reconfiguration
export_model_load ==
    /\ pc = "load"
    /\ \/ \E tok \in Tokenizers :
            /\ model' = tok
            /\ pc' = IF CurArch = "tdt" THEN "tdt_mktemp" ELSE "ctc_mktemp"
            /\ UNCHANGED <<idx, attempts, raised, exitcode>>
       \/ \E e \in OpaqueErrors :
            /\ Raise(e)
            /\ UNCHANGED model
    /\ UNCHANGED <<args, cuda, device, in_try, dir, cache_clears, done_dir>>

\* lines 246-250 and the return to main (continue, line 293, or the loop end)
export_model_return ==
    /\ pc = "return"
    /\ attempts' = [i \in 1..Len(attempts) |->
                        IF attempts[i].key # CurKey THEN attempts[i]
                        ELSE [attempts[i] EXCEPT
                                !.outcome = IF i = Cur THEN "ok" ELSE @,
                                !.found = {}]]
    /\ model' = NoModel
    /\ in_try' = FALSE
    /\ idx' = idx + 1
    /\ pc' = "main_loop"
    /\ done_dir' = [done_dir EXCEPT ![CurKey] = dir[CurKey]]
    /\ UNCHANGED <<args, cuda, device, dir, raised, exitcode, cache_clears>>

-----------------------------------------------------------------------------
(* The opaque raw export, model.export(temp_dir / "model.onnx").           *)

GraphFiles == {"model.onnx", "encoder-model.onnx"}

\* the graph contents that go with a set of written names
RawGraphs(out) ==
    IF out \cap GraphFiles = {} THEN {NoGraph}
    ELSE { GraphOf(sh) : sh \in ExportedGraphs }

\* what a failed raw export may leave in the scratch directory
PartialOutputs == { {}, {"encoder-model.onnx"} }

\* model.export(...) returned: the scratch directory holds out
Exported(d, out, g) == [d EXCEPT !.scratch = out, !.raw = g]

\* temp_dir.mkdir(parents=True, exist_ok=True), lines 52-53 and 123-124
WithTemp(d, by) ==
    IF "temp" \in Names(d) THEN d
    ELSE [WithFile(d, "temp", by) EXCEPT !.scratch = {}, !.raw = NoGraph]

\* shutil.move of a scratch file to the output directory, line 91
Moved(d, name, by) ==
    [WithFile(d, name, by) EXCEPT !.scratch = d.scratch \ {name}]

\* faulty variant: the graph is saved with its payloads embedded, without a blob
ConvertedInline(d, from_name, to_name, data_filename, by) ==
    [WithFile(d, to_name, by) EXCEPT !.graph = d.raw, !.blob = <<>>,
                                     !.loaded_from = from_name]

\* lines 67-83 and 145-161: load from_name, convert, save as to_name with the
\* blob data_filename beside it
Converted(d, from_name, to_name, data_filename, by) ==
    LET saved == WithFile(d, to_name, by)
        blobbed == IF WritesBlob(d.raw) THEN WithFile(saved, data_filename, by)
                   ELSE saved
    IN  [blobbed EXCEPT !.graph = PackedGraph(d.raw, data_filename),
                        !.blob = BlobUpTo(d.raw, Len(d.raw)),
                        !.loaded_from = from_name]

-----------------------------------------------------------------------------
(* export_tdt_model(), lines 42-111.                                       *)

tdt_mktemp ==
    /\ pc = "tdt_mktemp"
    /\ dir' = [dir EXCEPT ![CurKey] = WithTemp(dir[CurKey], Cur)]
    /\ pc' = "tdt_export"
    /\ UNCHANGED <<args, cuda, idx, device, in_try, model, attempts, raised,
                   exitcode, cache_clears, done_dir>>

\* lines 55-57
tdt_export ==
    /\ pc = "tdt_export"
    /\ \/ \E out \in RawOutputs : \E g \in RawGraphs(out) :
            /\ dir' = [dir EXCEPT ![CurKey] = Exported(dir[CurKey], out, g)]
            /\ pc' = "tdt_encoder"
            /\ UNCHANGED <<idx, attempts, raised, exitcode>>
       \/ \E out \in PartialOutputs : \E e \in OpaqueErrors :
            /\ dir' = [dir EXCEPT ![CurKey] = Exported(dir[CurKey], out, NoGraph)]
            /\ Raise(e)
    /\ UNCHANGED <<args, cuda, device, in_try, model, cache_clears, done_dir>>

\* faulty variant: the existence check looks for the name passed to export
tdt_encoder_checks_model_onnx ==
    /\ pc = "tdt_encoder"
    /\ IF "model.onnx" \notin dir[CurKey].scratch
       THEN /\ Raise(SystemExit)
            /\ UNCHANGED dir
       ELSE /\ dir' = [dir EXCEPT ![CurKey] =
                        Converted(dir[CurKey], "encoder-model.onnx",
                                  "encoder-model.onnx", "encoder-model.onnx.data", Cur)]
            /\ pc' = "tdt_decoder"
            /\ UNCHANGED <<idx, attempts, raised, exitcode>>
    /\ UNCHANGED <<args, cuda, device, in_try, model, cache_clears, done_dir>>

\* lines 59-83: the encoder graph is checked, packed and saved
tdt_encoder ==
    /\ pc = "tdt_encoder"
    /\ IF "encoder-model.onnx" \notin dir[CurKey].scratch
       THEN /\ Raise(SystemExit)
            /\ UNCHANGED dir
       ELSE /\ dir' = [dir EXCEPT ![CurKey] =
                        Converted(dir[CurKey], "encoder-model.onnx",
                                  "encoder-model.onnx", "encoder-model.onnx.data", Cur)]
            /\ pc' = "tdt_decoder"
            /\ UNCHANGED <<idx, attempts, raised, exitcode>>
    /\ UNCHANGED <<args, cuda, device, in_try, model, cache_clears, done_dir>>

\* lines 85-91: the decoder/joiner graph is checked and moved
tdt_decoder ==
    /\ pc = "tdt_decoder"
    /\ IF "decoder_joint-model.onnx" \notin dir[CurKey].scratch
       THEN /\ Raise(SystemExit)
            /\ UNCHANGED dir
       ELSE /\ dir' = [dir EXCEPT ![CurKey] =
                        Moved(dir[CurKey], "decoder_joint-model.onnx", Cur)]
            /\ pc' = "tdt_rmtree"
            /\ UNCHANGED <<idx, attempts, raised, exitcode>>
    /\ UNCHANGED <<args, cuda, device, in_try, model, cache_clears, done_dir>>

\* faulty variant: config.json is written right after the cleanup
tdt_rmtree_writes_config ==
    /\ pc = "tdt_rmtree"
    /\ dir' = [dir EXCEPT ![CurKey] =
                [WithFile(WithoutTemp(dir[CurKey]), "config.json", Cur) EXCEPT
                    !.config = "nemo-conformer-tdt"]]
    /\ pc' = "tdt_vocab"
    /\ UNCHANGED <<args, cuda, idx, device, in_try, model, attempts, raised,
                   exitcode, cache_clears, done_dir>>

\* lines 93-94
tdt_rmtree ==
    /\ pc = "tdt_rmtree"
    /\ dir' = [dir EXCEPT ![CurKey] = WithoutTemp(dir[CurKey])]
    /\ pc' = "tdt_vocab"
    /\ UNCHANGED <<args, cuda, idx, device, in_try, model, attempts, raised,
                   exitcode, cache_clears, done_dir>>

\* faulty variant: the lines are numbered from one
VocabLinesFromOne(v) ==
    [i \in 1..Len(v) + 1 |-> <<(v \o <<"<blk>">>)[i], i>>]

\* line 99: enumerate([*model.tokenizer.vocab, "<blk>"]), one line per token
VocabLines(v) ==
    [i \in 1..Len(v) + 1 |-> <<(v \o <<"<blk>">>)[i], i - 1>>]

\* lines 96-100: open(..., "w") creates vocab.txt, then the vocabulary is read
tdt_vocab ==
    /\ pc = "tdt_vocab"
    /\ IF ~model.has_vocab
       THEN /\ dir' = [dir EXCEPT ![CurKey] =
                        [WithFile(dir[CurKey], "vocab.txt", Cur) EXCEPT
                            !.vocab_txt = <<>>]]
            /\ Raise(AttributeError)
       ELSE /\ dir' = [dir EXCEPT ![CurKey] =
                        [WithFile(dir[CurKey], "vocab.txt", Cur) EXCEPT
                            !.vocab_txt = VocabLines(model.vocab)]]
            /\ pc' = "tdt_config"
            /\ UNCHANGED <<idx, attempts, raised, exitcode>>
    /\ UNCHANGED <<args, cuda, device, in_try, model, cache_clears, done_dir>>

\* lines 102-111
tdt_config ==
    /\ pc = "tdt_config"
    /\ dir' = [dir EXCEPT ![CurKey] =
                [WithFile(dir[CurKey], "config.json", Cur) EXCEPT
                    !.config = "nemo-conformer-tdt"]]
    /\ pc' = "return"
    /\ UNCHANGED <<args, cuda, idx, device, in_try, model, attempts, raised,
                   exitcode, cache_clears, done_dir>>

-----------------------------------------------------------------------------
(* export_ctc_model(), lines 114-202.                                      *)

ctc_mktemp ==
    /\ pc = "ctc_mktemp"
    /\ dir' = [dir EXCEPT ![CurKey] = WithTemp(dir[CurKey], Cur)]
    /\ pc' = "ctc_export"
    /\ UNCHANGED <<args, cuda, idx, device, in_try, model, attempts, raised,
                   exitcode, cache_clears, done_dir>>

\* lines 126-128
ctc_export ==
    /\ pc = "ctc_export"
    /\ \/ \E out \in RawOutputs : \E g \in RawGraphs(out) :
            /\ dir' = [dir EXCEPT ![CurKey] = Exported(dir[CurKey], out, g)]
            /\ pc' = "ctc_convert"
            /\ UNCHANGED <<idx, attempts, raised, exitcode>>
       \/ \E out \in PartialOutputs : \E e \in OpaqueErrors :
            /\ dir' = [dir EXCEPT ![CurKey] = Exported(dir[CurKey], out, NoGraph)]
            /\ Raise(e)
    /\ UNCHANGED <<args, cuda, device, in_try, model, cache_clears, done_dir>>

\* faulty variant: the candidate names are probed in the other order
CandidatesReversed == <<"encoder-model.onnx", "model.onnx">>

\* line 133
Candidates == <<"model.onnx", "encoder-model.onnx">>

\* lines 132-136: the first candidate that exists, "" for None
RECURSIVE FirstExisting(_, _)
FirstExisting(cands, present) ==
    IF cands = <<>> THEN ""
    ELSE IF Head(cands) \in present THEN Head(cands)
    ELSE FirstExisting(Tail(cands), present)

\* lines 130-161: the exported graph is found, packed and saved
ctc_convert ==
    /\ pc = "ctc_convert"
    /\ LET exported_file == FirstExisting(Candidates, dir[CurKey].scratch)
       IN  IF exported_file = ""
           THEN /\ Raise(SystemExit)
                /\ UNCHANGED dir
           ELSE /\ dir' = [dir EXCEPT ![CurKey] =
                            Converted(dir[CurKey], exported_file, "model.onnx",
                                      "model.onnx_data", Cur)]
                /\ pc' = "ctc_rmtree"
                /\ UNCHANGED <<idx, attempts, raised, exitcode>>
    /\ UNCHANGED <<args, cuda, device, in_try, model, cache_clears, done_dir>>

\* lines 163-164
ctc_rmtree ==
    /\ pc = "ctc_rmtree"
    /\ dir' = [dir EXCEPT ![CurKey] = WithoutTemp(dir[CurKey])]
    /\ pc' = "ctc_tokenizer"
    /\ UNCHANGED <<args, cuda, idx, device, in_try, model, attempts, raised,
                   exitcode, cache_clears, done_dir>>

\* a dict filled in sequence order: the last index of a token stays
DictOf(toks) ==
    { <<toks[i], i - 1>> : i \in { j \in 1..Len(toks) :
                                    /\ toks[j] # ""
                                    /\ \A k \in j + 1..Len(toks) : toks[k] # toks[j] } }

\* faulty variant: range(1, vocab_size), id 0 is never looked up
IdTokensFromOne(tok) ==
    [i \in 1..tok.vocab_size |->
        IF i = 1 \/ tok.ids_to_tokens[i] = <<>> THEN "" ELSE tok.ids_to_tokens[i][1]]

\* lines 177-181: ids_to_tokens([i]) for every i, "" where the list is empty
IdTokens(tok) ==
    [i \in 1..tok.vocab_size |->
        IF tok.ids_to_tokens[i] = <<>> THEN "" ELSE tok.ids_to_tokens[i][1]]

\* faulty variant: an empty vocabulary falls through to the next strategy
CtcVocabSkippingEmpty(tok) ==
    IF tok.has_vocab /\ tok.vocab # <<>> THEN DictOf(tok.vocab)
    ELSE IF tok.has_get_vocab /\ tok.get_vocab # {} THEN tok.get_vocab
    ELSE DictOf(IdTokens(tok))

\* lines 170-181: the strategy is the first the tokenizer exposes
CtcVocab(tok) ==
    IF tok.has_vocab THEN DictOf(tok.vocab)
    ELSE IF tok.has_get_vocab THEN tok.get_vocab
    ELSE DictOf(IdTokens(tok))

\* lines 166-191: the vocabulary is derived, then tokenizer.json is written
ctc_tokenizer ==
    /\ pc = "ctc_tokenizer"
    /\ IF ~model.has_vocab /\ ~model.has_get_vocab /\ ~model.has_vocab_size
       THEN /\ Raise(AttributeError)
            /\ UNCHANGED dir
       ELSE /\ dir' = [dir EXCEPT ![CurKey] =
                        [WithFile(dir[CurKey], "tokenizer.json", Cur) EXCEPT
                            !.tokenizer_json = CtcVocab(model)]]
            /\ pc' = "ctc_config"
            /\ UNCHANGED <<idx, attempts, raised, exitcode>>
    /\ UNCHANGED <<args, cuda, device, in_try, model, cache_clears, done_dir>>

\* lines 193-202
ctc_config ==
    /\ pc = "ctc_config"
    /\ dir' = [dir EXCEPT ![CurKey] =
                [WithFile(dir[CurKey], "config.json", Cur) EXCEPT
                    !.config = "nemo-conformer-ctc"]]
    /\ pc' = "return"
    /\ UNCHANGED <<args, cuda, idx, device, in_try, model, attempts, raised,
                   exitcode, cache_clears, done_dir>>

-----------------------------------------------------------------------------

Next ==
    \/ main_banner
    \/ main_next
    \/ main_try
    \/ main_except
    \/ main_call
    \/ main_finish
    \/ export_model_reset
    \/ export_model_load
    \/ export_model_return
    \/ tdt_mktemp
    \/ tdt_export
    \/ tdt_encoder
    \/ tdt_decoder
    \/ tdt_rmtree
    \/ tdt_vocab
    \/ tdt_config
    \/ ctc_mktemp
    \/ ctc_export
    \/ ctc_convert
    \/ ctc_rmtree
    \/ ctc_tokenizer
    \/ ctc_config

Spec == Init /\ [][Next]_vars

TypeOK ==
    /\ pc \in {"banner", "main_loop", "try", "call", "except", "reset", "load",
               "return", "done", "crashed",
               "tdt_mktemp", "tdt_export", "tdt_encoder", "tdt_decoder",
               "tdt_rmtree", "tdt_vocab", "tdt_config",
               "ctc_mktemp", "ctc_export", "ctc_convert", "ctc_rmtree",
               "ctc_tokenizer", "ctc_config"}
    /\ device \in {"cuda", "cpu"}
    /\ idx \in 1..Len(models_to_export(args)) + 1

-----------------------------------------------------------------------------
(* Vocabulary of the properties.                                           *)

Requested == { models_to_export(args)[p] : p \in 1..Len(models_to_export(args)) }

AttemptsOf(k) == { i \in 1..Len(attempts) : attempts[i].key = k }

Failed(i) == attempts[i].outcome = "failed"

Completed(i) == attempts[i].outcome = "ok"

\* the failed attempt i was an Accelerated one that hit ResourceExhaustion
Exhausted(i) ==
    /\ Failed(i)
    /\ attempts[i].device = "cuda"
    /\ attempts[i].resource_exhaustion

\* a failure that the fallback protocol does not recover
Fatal(i) == Failed(i) /\ ~Exhausted(i)

Ended == pc \in {"done", "crashed"}

-----------------------------------------------------------------------------
(* C1: a job whose Accelerated attempt fails with ResourceExhaustion is    *)
(* attempted again exactly once, on HostOnly, and never again on           *)
(* Accelerated: once the except clause has run, the next export_model call *)
(* is the HostOnly one of the same job and no later call is for that job;  *)
(* every job has at most two attempts, at most one of them Accelerated,    *)
(* and an Accelerated attempt is always the job's first.                   *)
C1_FallbackExactlyOnce ==
    /\ \A k \in ModelKeys :
        /\ Cardinality(AttemptsOf(k)) <= 2
        /\ Cardinality({ i \in AttemptsOf(k) : attempts[i].device = "cuda" }) <= 1
    /\ \A i \in 1..Len(attempts) :
        attempts[i].device = "cuda" =>
            \A j \in 1..(i - 1) : attempts[j].key # attempts[i].key
    /\ \A i \in 1..Len(attempts) :
        Exhausted(i) =>
            \/ i = Cur /\ pc \in {"except", "call"}
            \/ /\ i < Cur
               /\ attempts[i + 1].key = attempts[i].key
               /\ attempts[i + 1].device = "cpu"
               /\ \A j \in (i + 2)..Len(attempts) : attempts[j].key # attempts[i].key

\* a job completed by its HostOnly retry after the Accelerated attempt ran
\* out of memory
C1_Witness ==
    \E i \in 1..Len(attempts) :
        /\ Exhausted(i)
        /\ i < Cur
        /\ attempts[i + 1].key = attempts[i].key
        /\ attempts[i + 1].device = "cpu"
        /\ Completed(i + 1)

(* C2: an Accelerated attempt that fails with anything but                 *)
(* ResourceExhaustion is the last export_model call of the run: no         *)
(* HostOnly attempt follows, and the exception that leaves main() is the   *)
(* one the attempt raised.                                                 *)
C2_NoFallbackOnOtherFailure ==
    \A i \in 1..Len(attempts) :
        (Failed(i) /\ attempts[i].device = "cuda" /\ ~attempts[i].resource_exhaustion) =>
            /\ i = Cur
            /\ raised = attempts[i].exc
            /\ raised # NoExc
            /\ cache_clears = <<>> \/ cache_clears[Len(cache_clears)] < i
            /\ \/ pc = "except"
               \/ pc = "crashed" /\ exitcode # <<>>

\* a RuntimeError without the marker has left main() from the Accelerated attempt
C2_Witness ==
    /\ pc = "crashed"
    /\ Cur >= 1
    /\ attempts[Cur].device = "cuda"
    /\ Failed(Cur)
    /\ raised.cls = "RuntimeError"
    /\ ~attempts[Cur].resource_exhaustion

(* C3: a failure of any kind during a HostOnly attempt ends the run at     *)
(* once: the exception leaves main() unchanged and no further attempt is   *)
(* made on any device.                                                     *)
C3_HostOnlyFailureIsFatal ==
    \A i \in 1..Len(attempts) :
        (Failed(i) /\ attempts[i].device = "cpu") =>
            /\ i = Cur
            /\ pc = "crashed"
            /\ raised = attempts[i].exc
            /\ raised # NoExc
            /\ exitcode # <<>>

\* the HostOnly retry after a fallback failed with a second out-of-memory error
C3_Witness ==
    /\ Cur >= 2
    /\ Exhausted(Cur - 1)
    /\ attempts[Cur].key = attempts[Cur - 1].key
    /\ attempts[Cur].device = "cpu"
    /\ Failed(Cur)
    /\ ResourceExhaustion(raised)

C5_ExitStatus ==
    /\ Ended <=> exitcode # <<>>
    /\ Ended =>
        /\ exitcode = <<0>> <=>
              \A k \in Requested : \E i \in AttemptsOf(k) : Completed(i)
        /\ (\E i \in 1..Len(attempts) : Fatal(i)) => exitcode[1] # 0

\* a run of both models that ended with status zero although one job fell back
C5_Witness ==
    /\ pc = "done"
    /\ exitcode = <<0>>
    /\ args.model = "all"
    /\ \E i \in 1..Len(attempts) : Exhausted(i)

(* C6: with the host-only flag set, or the accelerated device unavailable, *)
(* every attempt of the run is a HostOnly one and no job is attempted      *)
(* twice; a run that reaches its end has made exactly one attempt per      *)
(* requested model.                                                        *)
C6_HostOnlyForced ==
    (args.cpu_only \/ ~cuda) =>
        /\ \A i \in 1..Len(attempts) : attempts[i].device = "cpu"
        /\ \A k \in ModelKeys : Cardinality(AttemptsOf(k)) <= 1
        /\ pc \notin {"try", "except"}
        /\ pc = "done" => \A k \in Requested : Cardinality(AttemptsOf(k)) = 1

\* the flag is set on a machine with the device: both jobs ran HostOnly, once
C6_Witness ==
    /\ args.cpu_only
    /\ cuda
    /\ args.model = "all"
    /\ pc = "done"
    /\ Len(attempts) = 2

C8_RecreatedFromEmpty ==
    \A i \in 1..Len(attempts) :
        (/\ \A j \in (i + 1)..Len(attempts) : attempts[j].key # attempts[i].key
         /\ ~(i = Cur /\ pc = "reset")) =>
            /\ dir[attempts[i].key].exists
            /\ \A f \in dir[attempts[i].key].files : f.by = i
            /\ "temp" \notin Names(dir[attempts[i].key]) =>
                    dir[attempts[i].key].scratch = {}

\* a job about to return complete whose first attempt found a stale export
\* and whose retry found what the failed Accelerated attempt left
C8_Witness ==
    \E i \in 2..Len(attempts) :
        /\ i = Cur
        /\ pc = "return"
        /\ Names(dir[attempts[i].key]) = FileSet(MODELS[attempts[i].key].arch)
        /\ Exhausted(i - 1)
        /\ attempts[i - 1].key = attempts[i].key
        /\ "stale.bin" \in attempts[i - 1].found
        /\ "temp" \in attempts[i].found
        /\ "stale.bin" \notin attempts[i].found

(* C9: when a variant's export has returned, the scratch directory the job *)
(* created under its output directory is gone.                             *)
C9_ScratchRemoved ==
    /\ pc = "return" =>
        /\ "temp" \notin Names(dir[CurKey])
        /\ dir[CurKey].scratch = {}
    /\ \A i \in 1..Len(attempts) :
        Completed(i) =>
            /\ "temp" \notin Names(dir[attempts[i].key])
            /\ dir[attempts[i].key].scratch = {}

\* the CTC variant is at its return and the TDT job completed before it
C9_Witness ==
    /\ pc = "return"
    /\ CurArch = "ctc"
    /\ \E i \in AttemptsOf("ja") : Completed(i)

\* the blob file the architecture's graph refers to
DataFilename(arch) ==
    IF arch = "tdt" THEN "encoder-model.onnx.data" ELSE "model.onnx_data"

C12_MissingEncoderWritesNothing ==
    \A i \in 1..Len(attempts) :
        LET k == attempts[i].key
            d == dir[k]
        IN  (/\ MODELS[k].arch = "tdt"
             /\ i = Cur
             /\ pc \in {"tdt_encoder", "tdt_decoder", "tdt_rmtree", "except", "crashed"}
             /\ "temp" \in Names(d)
             /\ "encoder-model.onnx" \notin d.scratch
             /\ Failed(i) => attempts[i].exc = SystemExit) =>
                /\ Names(d) = {"temp"}
                /\ d.graph = NoGraph
                /\ d.blob = <<>>
                /\ d.vocab_txt = <<>>
                /\ d.config = ""
                /\ \A j \in AttemptsOf(k) : ~Completed(j)
                /\ pc \in {"tdt_encoder", "except", "crashed"}
                /\ pc # "tdt_encoder" => Failed(i) /\ raised = SystemExit
                /\ pc = "crashed" => exitcode = <<SysExitCode>>

\* the raw export left only the decoder-joint graph and the run has ended
\* with the exit
C12_Witness ==
    /\ pc = "crashed"
    /\ raised = SystemExit
    /\ Cur >= 1
    /\ MODELS[attempts[Cur].key].arch = "tdt"
    /\ dir[attempts[Cur].key].scratch = {"decoder_joint-model.onnx"}
    /\ Names(dir[attempts[Cur].key]) = {"temp"}

\* the loaded tokenizer exposes none of the three extraction strategies
ExposesNoStrategy(m) ==
    m.loaded /\ ~m.has_vocab /\ ~m.has_get_vocab /\ ~m.has_vocab_size

(* C13: with a tokenizer that exposes none of the three extraction         *)
(* strategies the metadata step fails, the attempt never gets to write     *)
(* config.json, and neither vocab.txt nor tokenizer.json is in the output  *)
(* directory, not even empty.                                              *)
C13_NoMetadataFileWithoutStrategy ==
    (Cur >= 1 /\ ExposesNoStrategy(model)) =>
        /\ pc \notin {"tdt_config", "ctc_config", "return"}
        /\ Failed(Cur) =>
            /\ "vocab.txt" \notin Names(dir[CurKey])
            /\ "tokenizer.json" \notin Names(dir[CurKey])

(* C14: once the raw export of a CTC attempt has returned, the variant     *)
(* packs model.onnx when the scratch directory holds it, else              *)
(* encoder-model.onnx when it holds that, into model.onnx of the output    *)
(* directory; when it holds neither the attempt ends with the exit of line *)
(* 141 and the output directory holds nothing but the scratch directory.   *)
C14_CandidateOrder ==
    \A i \in 1..Len(attempts) :
        LET k == attempts[i].key
            d == dir[k]
        IN  (/\ MODELS[k].arch = "ctc"
             /\ i = Cur
             /\ pc \in {"ctc_convert", "ctc_rmtree", "except", "crashed"}
             /\ "temp" \in Names(d)
             /\ Failed(i) => attempts[i].exc = SystemExit) =>
                IF d.scratch \cap GraphFiles = {}
                THEN /\ Names(d) = {"temp"}
                     /\ d.graph = NoGraph
                     /\ d.blob = <<>>
                     /\ d.tokenizer_json = {}
                     /\ d.config = ""
                     /\ pc # "ctc_rmtree"
                     /\ pc # "ctc_convert" => Failed(i) /\ raised = SystemExit
                     /\ pc = "crashed" => exitcode = <<SysExitCode>>
                ELSE pc # "ctc_convert" =>
                     /\ pc = "ctc_rmtree"
                     /\ d.loaded_from = IF "model.onnx" \in d.scratch
                                        THEN "model.onnx" ELSE "encoder-model.onnx"
                     /\ d.loaded_from \in d.scratch
                     /\ {"model.onnx", "model.onnx_data"} \subseteq Names(d)
                     /\ Len(d.graph) = Len(d.raw)

\* the scratch directory holds both candidate names and model.onnx was packed
C14_Witness ==
    /\ pc = "ctc_rmtree"
    /\ {"model.onnx", "encoder-model.onnx"} \subseteq dir[CurKey].scratch
    /\ dir[CurKey].loaded_from = "model.onnx"
    /\ "model.onnx" \in Names(dir[CurKey])

-----------------------------------------------------------------------------
(* The metadata step on its own: a one-model run that has reached the      *)
(* metadata step of its variant (the raw graph is packed, the scratch      *)
(* directory removed), with the tokenizer drawn from every combination of  *)
(* exposed strategies and every vocabulary up to MaxVocab entries.         *)

MaxVocab == 2

Tokens == {"a", "b"}

\* tokenizer.vocab
VocabSeqs == UNION { [1..n -> Tokens] : n \in 0..MaxVocab }

\* the lists ids_to_tokens([i]) returns for i = 0..vocab_size-1
IdLists == UNION { [1..n -> {<<>>} \cup { <<t>> : t \in Tokens }] : n \in 0..MaxVocab }

\* tokenizer.tokenizer.get_vocab()
InnerMaps == { {}, {<<"a", 0>>}, {<<"b", 0>>, <<"a", 1>>} }

AllTokenizers ==
    { m \in [loaded : {TRUE}, has_vocab : BOOLEAN, vocab : VocabSeqs,
             has_get_vocab : BOOLEAN, get_vocab : InnerMaps,
             has_vocab_size : BOOLEAN, vocab_size : 0..MaxVocab,
             ids_to_tokens : IdLists] :
        /\ m.vocab_size = Len(m.ids_to_tokens)
        /\ ~m.has_vocab => m.vocab = <<>>
        /\ ~m.has_get_vocab => m.get_vocab = {}
        /\ ~m.has_vocab_size => m.ids_to_tokens = <<>> }

CanonGraph == GraphOf(<<[site |-> "initializer", storage |-> "raw_data"]>>)

\* the output directory as the variant has it when it reaches its metadata
\* step in the first export_model call of the run
MetaDir(arch) ==
    IF arch = "tdt"
    THEN WithoutTemp(
            Moved(
                Converted(
                    Exported(WithTemp(EmptyDir, 1),
                             {"encoder-model.onnx", "decoder_joint-model.onnx"},
                             CanonGraph),
                    "encoder-model.onnx", "encoder-model.onnx",
                    "encoder-model.onnx.data", 1),
                "decoder_joint-model.onnx", 1))
    ELSE WithoutTemp(
            Converted(
                Exported(WithTemp(EmptyDir, 1), {"model.onnx"}, CanonGraph),
                "model.onnx", "model.onnx", "model.onnx_data", 1))

MetaInit ==
    /\ args \in [model : ModelKeys, cpu_only : BOOLEAN]
    /\ cuda \in BOOLEAN
    /\ pc = IF MODELS[args.model].arch = "tdt" THEN "tdt_vocab" ELSE "ctc_tokenizer"
    /\ idx = 1
    /\ device = FirstDevice(args.cpu_only, cuda)
    /\ in_try = (FirstDevice(args.cpu_only, cuda) = "cuda")
    /\ model \in AllTokenizers
    /\ dir = [k \in ModelKeys |->
                IF k = args.model THEN MetaDir(MODELS[k].arch) ELSE NoDir]
    /\ attempts = <<Attempt(args.model, FirstDevice(args.cpu_only, cuda), {})>>
    /\ raised = NoExc
    /\ exitcode = <<>>
    /\ cache_clears = <<>>
    /\ done_dir = [k \in ModelKeys |-> NoDir]

MetaNext ==
    \/ tdt_vocab
    \/ tdt_config
    \/ ctc_tokenizer
    \/ ctc_config
    \/ export_model_return
    \/ main_except
    \/ main_finish

MetaSpec == MetaInit /\ [][MetaNext]_vars

\* the running attempt has written the named metadata file
Wrote(name) ==
    /\ model.loaded
    /\ ~Failed(Cur)
    /\ name \in Names(dir[CurKey])

(* C15: for a CTC tokenizer that exposes only the id-to-token lookup with  *)
(* declared size N, the written mapping holds exactly the tokens the       *)
(* lookup returned for the ids 0..N-1, one entry per token, each mapped to *)
(* an id whose lookup returned it; an id whose lookup returned nothing is  *)
(* in no entry.                                                            *)
C15_IdLookupMapping ==
    (/\ Wrote("tokenizer.json")
     /\ ~model.has_vocab /\ ~model.has_get_vocab /\ model.has_vocab_size) =>
        LET written == dir[CurKey].tokenizer_json
            ids == model.ids_to_tokens
        IN  /\ { e[1] : e \in written } =
                    { ids[n][1] : n \in { j \in 1..model.vocab_size : ids[j] # <<>> } }
            /\ \A e \in written :
                    /\ e[2] \in 0..model.vocab_size - 1
                    /\ ids[e[2] + 1] = <<e[1]>>
            /\ \A e, f \in written : e[1] = f[1] => e = f

\* the lookup returned a token for id 0, nothing for id 1, and the mapping
\* with the one entry is written
C15_Witness ==
    /\ Wrote("tokenizer.json")
    /\ ~model.has_vocab /\ ~model.has_get_vocab /\ model.has_vocab_size
    /\ model.ids_to_tokens = <<(<<"a">>), <<>>>>
    /\ dir[CurKey].tokenizer_json = {<<"a", 0>>}

(* C16: the CTC mapping comes from one strategy, by priority: from the     *)
(* direct vocabulary whenever the tokenizer exposes one (each token mapped *)
(* to a position that holds it), even an empty one; else it is the inner   *)
(* tokenizer's mapping whenever that is exposed, even an empty one; the    *)
(* id lookup is used only when neither is exposed.                         *)
C16_StrategyPriority ==
    Wrote("tokenizer.json") =>
        LET written == dir[CurKey].tokenizer_json
        IN  /\ model.has_vocab =>
                /\ { e[1] : e \in written } =
                        { model.vocab[n] : n \in 1..Len(model.vocab) }
                /\ \A e \in written :
                        /\ e[2] \in 0..Len(model.vocab) - 1
                        /\ model.vocab[e[2] + 1] = e[1]
                /\ \A e, f \in written : e[1] = f[1] => e = f
            /\ (~model.has_vocab /\ model.has_get_vocab) =>
                written = model.get_vocab
            /\ (~model.has_vocab /\ ~model.has_get_vocab) =>
                \A e \in written : model.ids_to_tokens[e[2] + 1] = <<e[1]>>

\* the direct vocabulary is exposed and empty, the inner mapping and the
\* lookup are exposed and not empty, and the written mapping is empty
C16_Witness ==
    /\ Wrote("tokenizer.json")
    /\ model.has_vocab /\ model.vocab = <<>>
    /\ model.has_get_vocab /\ model.get_vocab # {}
    /\ model.has_vocab_size /\ model.ids_to_tokens = <<(<<"a">>)>>
    /\ dir[CurKey].tokenizer_json = {}

(* C17: for a TDT vocabulary t_0..t_{N-1}, vocab.txt has N+1 lines: line i *)
(* (0 <= i < N) is t_i with index i, the last line is the blank symbol     *)
(* with index N; so the indices are 0..N, each once, in order.             *)
C17_VocabLines ==
    (Wrote("vocab.txt") /\ MODELS[CurKey].arch = "tdt") =>
        LET lines == dir[CurKey].vocab_txt
            N == Len(model.vocab)
        IN  /\ model.has_vocab
            /\ Len(lines) = N + 1
            /\ \A i \in 0..N - 1 : lines[i + 1] = <<model.vocab[i + 1], i>>
            /\ lines[N + 1] = <<"<blk>", N>>
            /\ \A n \in 1..N : lines[n][1] # "<blk>"

\* a vocabulary of two equal tokens is written as three lines
C17_Witness ==
    /\ Wrote("vocab.txt")
    /\ model.vocab = <<"a", "a">>
    /\ dir[CurKey].vocab_txt = <<(<<"a", 0>>), <<"a", 1>>, <<"<blk>", 2>>>>

-----------------------------------------------------------------------------
(* C18: every emptying of the device cache follows the ResourceExhaustion  *)
(* failure of an Accelerated attempt and is followed at once by the        *)
(* HostOnly call of the same job: the cache is emptied for attempt i only  *)
(* if i is an Accelerated attempt that failed with ResourceExhaustion, and *)
(* then either the HostOnly call is the next step or attempt i+1 is the    *)
(* HostOnly attempt of the same job; once the except clause has handled    *)
(* such a failure the cache has been emptied for it, exactly once, so      *)
(* before the HostOnly attempt resets the directory and loads the model;   *)
(* no other failure and no success empties the cache.                      *)
C18_CacheClearedBeforeRetry ==
    /\ \A n \in 1..Len(cache_clears) :
        LET i == cache_clears[n]
        IN  /\ i \in 1..Len(attempts)
            /\ Exhausted(i)
            /\ \/ i = Cur /\ pc = "call" /\ device = "cpu"
               \/ /\ i < Cur
                  /\ attempts[i + 1].device = "cpu"
                  /\ attempts[i + 1].key = attempts[i].key
            /\ \A m \in 1..Len(cache_clears) : cache_clears[m] = i => m = n
    /\ \A i \in 1..Len(attempts) :
        (Exhausted(i) /\ ~(i = Cur /\ pc = "except")) =>
            \E n \in 1..Len(cache_clears) : cache_clears[n] = i
    /\ \A i \in 1..Len(attempts) :
        (attempts[i].device = "cpu" /\ i > 1 /\ attempts[i - 1].key = attempts[i].key) =>
            \E n \in 1..Len(cache_clears) : cache_clears[n] = i - 1

\* the cache was emptied for the exhausted attempt and the HostOnly attempt
\* of the same model has begun and is about to reset the directory
C18_Witness ==
    /\ Len(cache_clears) = 1
    /\ Cur = cache_clears[1] + 1
    /\ Exhausted(cache_clears[1])
    /\ attempts[Cur].device = "cpu"
    /\ pc = "reset"

(* C19: with the accelerated device available and --cpu-only not given,    *)
(* the first attempt of every model is an Accelerated one, whatever        *)
(* happened to the models before it; a model that is about to start is     *)
(* about to start on the accelerated device.                               *)
C19_EveryJobStartsAccelerated ==
    (~args.cpu_only /\ cuda) =>
        /\ \A k \in ModelKeys :
            \A i \in AttemptsOf(k) :
                (\A j \in AttemptsOf(k) : i <= j) => attempts[i].device = "cuda"
        /\ pc = "try" => device = "cuda"
        /\ (pc = "call" /\ device = "cpu") => Exhausted(Cur)

\* the first model fell back to the host and completed there, and the
\* second model has started with an Accelerated attempt
C19_Witness ==
    /\ Len(attempts) = 3
    /\ Exhausted(1)
    /\ attempts[2].key = attempts[1].key
    /\ attempts[2].device = "cpu"
    /\ Completed(2)
    /\ attempts[3].key # attempts[1].key
    /\ attempts[3].device = "cuda"

\* a model whose output directory this run has recreated: export_model has
\* been called for it and has passed lines 212-214
Recreated(k) ==
    /\ AttemptsOf(k) # {}
    /\ ~(attempts[Cur].key = k /\ pc = "reset" /\ Cardinality(AttemptsOf(k)) = 1)

\* config.json is there only with the whole file set and without temp
ConfigImpliesComplete(k) ==
    "config.json" \in Names(dir[k]) =>
        /\ FileSet(MODELS[k].arch) \subseteq Names(dir[k])
        /\ "temp" \notin Names(dir[k])

====
